---- MODULE Spec2Model ----
(***************************************************************************)
(* Model of snew's authenticated client (src/src/auth.rs) and its          *)
(* paginated post feed (src/src/things.rs).                                *)
(*                                                                         *)
(* One AuthenticatedClient (transport + authenticator, each behind its own *)
(* mutex) is shared by the threads of Threads; each thread owns one        *)
(* PostFeed and calls next() on it.  The remote API is the environment:    *)
(* every response it may give is drawn from a small set.                   *)
(*                                                                         *)
(* Option<T> is modelled as a sequence of length at most one:              *)
(* None == <<>>, Some(x) == <<x>>.                                         *)
(***************************************************************************)
EXTENDS Integers, Sequences, FiniteSets, TLC

\* ------------------------------------------------------------------ bounds

\* next() calls made on the feed when one thread works alone
MaxCalls == 3
\* children the server puts in one page
MaxChildren == 2

Threads == {1, 2}
\* posts the server can list, numbered by their rank in the listing
Items == 1..MaxChildren
\* pagination tokens the server can send ("" is the empty token)
Cursors == {"", "t3_1"}
\* access_token values the token endpoint can send; 0 stands for a value that
\* is no legal header value (HeaderValue::from_str rejects it)
AccessTokens == 0..2

\* ------------------------------------------------------------ environment

None == <<>>
Some(x) == <<x>>

\* HTTP statuses of interest: OK, UNAUTHORIZED, FORBIDDEN and one other.
Statuses == {200, 401, 403, 500}

\* The pages the server can cut out of its listing: runs of posts in rank
\* order, at most MaxChildren long.
Pages ==
    {s \in UNION {[1..k -> Items] : k \in 0..MaxChildren} :
        \A i \in 1..(Len(s) - 1) : s[i] < s[i + 1]}

\* Bodies of a listing response: a listing whose "after" is a string or JSON
\* null, something that is no listing, or a body that cannot be read.
ListingBodies ==
    [kind : {"listing"}, children : Pages, after : {Some(c) : c \in Cursors}]
        \cup {[kind |-> "listing", children |-> <<1>>, after |-> None]}
NoBody == [kind |-> "garbage", children |-> <<>>, after |-> None]
UnreadableBody == [kind |-> "unreadable", children |-> <<>>, after |-> None]
Bodies == ListingBodies \cup {NoBody, UnreadableBody}

\* What the transport gives back for one GET: no response at all (status 0),
\* or a status and a body (the body matters to the caller only under 200).
GetResponses ==
    {[status |-> 0, body |-> NoBody]}
        \cup [status : {200}, body : Bodies]
        \cup [status : Statuses \ {200}, body : {NoBody}]

\* What the token endpoint gives back: no response (status 0), or a status
\* with a token body, an {error: text} body, or some other body.
LoginResponses ==
    {[status |-> 0, kind |-> "none", access_token |-> 0, error |-> ""]}
        \cup [status : {200, 401, 500}, kind : {"token"},
              access_token : AccessTokens, error : {""}]
        \cup [status : {200, 401, 500}, kind : {"error"},
              access_token : {0}, error : {"invalid_grant"}]
        \cup [status : {200, 401, 500}, kind : {"other"},
              access_token : {0}, error : {""}]

\* ------------------------------------------------------------------ state

VARIABLES
    scenario,      \* how the listing server answers: "any" | "expired"
    variant,       \* the authenticator variant: "script" | "application"
    phase,         \* AuthenticatedClient::new: "new" | "ready" | "failed"
    boot,          \* Option: the login of a new() that failed, with its response
    client,        \* Option: the credential in the shared transport's header
    token,         \* Option: the authenticator's stored token (access_token)
    issued,        \* Option: the token of the latest exchange answered with one
    clientLock,    \* holders of the transport mutex
    authLock,      \* holders of the authenticator mutex
    rejected,      \* access tokens the server rejects in scenario "expired"
    logins,        \* login() calls the token endpoint of scenario "expired" served
    pc,            \* per thread: position inside next()/get()
    after,         \* per feed: PostFeed.after
    cached_posts,  \* per feed: PostFeed.cached_posts
    query,         \* per feed: the query of the request in flight
    call,          \* per thread: what the current/last get() did
    result,        \* per thread: what the last get() returned
    quota,         \* per feed: how many next() calls its thread will make
    calls,         \* per feed: number of next() calls made so far
    last,          \* per feed: what the most recent next() did and gave
    fetched,       \* per feed: number of pages decoded so far
    decoded,       \* per feed: Option, the trailing token of the last page decoded
    served,        \* per feed: children of the pages decoded so far, in order
    yielded        \* per feed: posts next() has yielded so far, in order

vars == <<scenario, variant, phase, boot, client, token, issued, clientLock, authLock,
          rejected, logins, pc, after, cached_posts, query, call, result,
          quota, calls, last, fetched, decoded, served, yielded>>

shared == <<client, token, issued, clientLock, authLock>>
feeds == <<after, cached_posts, query, calls, last, fetched, decoded, served,
          yielded>>
setup == <<scenario, variant, phase, boot, rejected, quota>>

\* ------------------------------------------------------------------ errors

NoErr == [type |-> "", msg |-> "", text |-> ""]
RequestError == [type |-> "RequestError", msg |-> "", text |-> ""]
APIParseError == [type |-> "APIParseError", msg |-> "", text |-> ""]
InvalidHeader == [type |-> "InvalidHeaderValue", msg |-> "", text |-> ""]
AuthenticationError(m, t) == [type |-> "AuthenticationError", msg |-> m, text |-> t]

\* ----------------------------------------------------------- authenticator

\* Faulty variant of LoginOutcome: no branch for status 401.
LoginOutcomeNo401(stored, resp) ==
    IF resp.status = 0
    THEN [ok |-> FALSE, err |-> RequestError, token |-> stored]
    ELSE IF resp.kind = "token"
    THEN [ok |-> TRUE, err |-> NoErr, token |-> Some(resp.access_token)]
    ELSE IF resp.kind = "error"
    THEN [ok |-> FALSE,
          err |-> AuthenticationError("Username or password are most likely wrong",
                                      resp.error),
          token |-> stored]
    ELSE [ok |-> FALSE,
          err |-> AuthenticationError("Unexpected error occured", ""),
          token |-> stored]

\* Faulty variant of LoginOutcome: the status is looked at before the body.
LoginOutcomeStatusFirst(stored, resp) ==
    IF resp.status = 0
    THEN [ok |-> FALSE, err |-> RequestError, token |-> stored]
    ELSE IF resp.status = 401
    THEN [ok |-> FALSE,
          err |-> AuthenticationError("Client ID or Secret are wrong", ""),
          token |-> stored]
    ELSE IF resp.kind = "token"
    THEN [ok |-> TRUE, err |-> NoErr, token |-> Some(resp.access_token)]
    ELSE IF resp.kind = "error"
    THEN [ok |-> FALSE,
          err |-> AuthenticationError("Username or password are most likely wrong",
                                      resp.error),
          token |-> stored]
    ELSE [ok |-> FALSE,
          err |-> AuthenticationError("Unexpected error occured", ""),
          token |-> stored]

\* Faulty variant of LoginOutcome: a failing login forgets the stored token.
LoginOutcomeClears(stored, resp) ==
    IF resp.status = 0
    THEN [ok |-> FALSE, err |-> RequestError, token |-> None]
    ELSE IF resp.kind = "token"
    THEN [ok |-> TRUE, err |-> NoErr, token |-> Some(resp.access_token)]
    ELSE IF resp.kind = "error"
    THEN [ok |-> FALSE,
          err |-> AuthenticationError("Username or password are most likely wrong",
                                      resp.error),
          token |-> None]
    ELSE IF resp.status = 401
    THEN [ok |-> FALSE,
          err |-> AuthenticationError("Client ID or Secret are wrong", ""),
          token |-> None]
    ELSE [ok |-> FALSE,
          err |-> AuthenticationError("Unexpected error occured", ""),
          token |-> None]

\* The body of login() after the response has arrived, common to both
\* variants: the stored token and the Result it gives.
LoginOutcome(stored, resp) ==
    IF resp.status = 0
    THEN [ok |-> FALSE, err |-> RequestError, token |-> stored]
    ELSE IF resp.kind = "token"
    THEN [ok |-> TRUE, err |-> NoErr, token |-> Some(resp.access_token)]
    ELSE IF resp.kind = "error"
    THEN [ok |-> FALSE,
          err |-> AuthenticationError("Username or password are most likely wrong",
                                      resp.error),
          token |-> stored]
    ELSE IF resp.status = 401
    THEN [ok |-> FALSE,
          err |-> AuthenticationError("Client ID or Secret are wrong", ""),
          token |-> stored]
    ELSE [ok |-> FALSE,
          err |-> AuthenticationError("Unexpected error occured", ""),
          token |-> stored]

ScriptLogin(stored, resp) == LoginOutcome(stored, resp)

ApplicationLogin(stored, resp) == LoginOutcome(stored, resp)

login(kind, stored, resp) ==
    IF kind = "script" THEN ScriptLogin(stored, resp)
    ELSE ApplicationLogin(stored, resp)

is_user(kind) == kind = "script"

\* ------------------------------------------------------ AuthenticatedClient

\* Faulty variant of check_auth: every status but 200 counts as a challenge.
check_auth_lax(status) ==
    IF status = 200 THEN "ok" ELSE "challenge"

\* "ok" (200), "challenge" (401/403: re-authenticate) or "unexpected" (Err).
check_auth(status) ==
    IF status = 200 THEN "ok"
    ELSE IF status = 403 \/ status = 401 THEN "challenge"
    ELSE "unexpected"

\* HeaderValue::from_str fails on an illegal value; Client::builder().build()
\* may fail on its own (built = FALSE).  The client is its bearer credential.
make_client(access_token, built) ==
    IF access_token = 0 THEN [ok |-> FALSE, err |-> InvalidHeader, client |-> None]
    ELSE IF ~built THEN [ok |-> FALSE, err |-> RequestError, client |-> None]
    ELSE [ok |-> TRUE, err |-> NoErr, client |-> Some(access_token)]

MissingToken == AuthenticationError("Token was not set after logging in", "")

\* The token the endpoint issued last, after the response resp.
Issued(before, resp) ==
    IF resp.kind = "token" THEN Some(resp.access_token) ELSE before

\* The attempt a with the token-exchange response it got and the token that
\* was stored before it.
Noted(a, resp, stored) == a @@ [resp |-> resp, stored |-> stored]

\* login() followed by token() and make_client(), as new() and get() both do.
\* Gives the login's outcome, the Result of the whole sequence and the
\* transport to install (None: keep the old one).
Authenticate(kind, stored, resp, built) ==
    LET l == login(kind, stored, resp)
        mc == IF l.token = None THEN [ok |-> FALSE, err |-> MissingToken, client |-> None]
              ELSE make_client(l.token[1], built)
    IN  [login |-> l,
         ok |-> l.ok /\ mc.ok,
         err |-> IF ~l.ok THEN l.err ELSE mc.err,
         client |-> IF l.ok THEN mc.client ELSE None]

\* Faulty variant of Install: the rebuilt transport is dropped, the old one stays.
InstallStale(old, a) == old

\* *client = make_client(..)?: the transport after the attempt a.
Install(old, a) == IF a.ok THEN a.client ELSE old

\* The listing server of scenario "expired" answers by the credential alone;
\* in scenario "any" it may answer anything.
ServerGives(cred, r) ==
    \/ scenario = "any"
    \/ /\ scenario = "expired"
       /\ r.status = IF cred \in rejected THEN 401 ELSE 200

\* The token endpoint never issues a token the server has expired; in
\* scenario "expired" nothing but the expired token is wrong: the endpoint
\* answers 200 with a fresh, legal token and the transport can be built.
EndpointGives(resp, built) ==
    /\ resp.kind = "token" => resp.access_token \notin rejected
    /\ scenario = "expired" =>
            /\ resp.kind = "token" /\ resp.status = 200 /\ resp.access_token # 0
            /\ built

\* ------------------------------------------------------------------- feed

\* limit of a feed made by Subreddit::posts_sorted
Limit == 100

Reverse(s) == [i \in 1..Len(s) |-> s[Len(s) + 1 - i]]

Front(s) == SubSeq(s, 1, Len(s) - 1)

Last(s) == s[Len(s)]

\* serde_json::from_str::<RawListing<..>>: the body must be a listing and its
\* "after" a string (Pagination.after is a String, so null does not decode).
ParseListing(body) ==
    IF body.kind = "listing" /\ body.after # None
    THEN Some([children |-> body.children, after |-> body.after[1]])
    ELSE None

\* Faulty variant of ExtendReversed: the children are pushed in server order.
ExtendForward(buffer, children) == buffer \o children

\* cached_posts.extend(children.into_iter().rev())
ExtendReversed(buffer, children) == buffer \o Reverse(children)

NoQuery == [limit |-> 0, after |-> ""]

NoCall == [gets |-> <<>>, logins |-> 0, relogin |-> None,
           pre |-> [client |-> None, token |-> None], post |-> None]

\* The call's note of the token-exchange response, once the retried GET has
\* been made.
Dropped == [status |-> 0, kind |-> "dropped", access_token |-> 0, error |-> ""]

NoResult == [ok |-> FALSE, body |-> NoBody, err |-> NoErr]

NoLast == [fetch |-> FALSE, query |-> NoQuery, res |-> "none", item |-> 0,
           page |-> None,
           pre |-> [after |-> "", cached_posts |-> <<>>],
           post |-> [after |-> "", cached_posts |-> <<>>]]

\* ------------------------------------------------------------------- Init

\* Who consumes: one thread alone, for MaxCalls calls, or every thread at
\* once, each making one call; against the server of scenario "expired" also
\* thread 1 making two calls beside the one call of the others.
Workloads(s) ==
    {[t \in Threads |-> IF t = 1 THEN MaxCalls ELSE 0],
     [t \in Threads |-> 1]}
        \cup IF s = "expired"
             THEN {[t \in Threads |-> IF t = 1 THEN 2 ELSE 1]}
             ELSE {}

Init ==
    /\ scenario \in {"any", "expired"}
    /\ variant \in {"script", "application"}
    /\ phase = "new"
    /\ boot = None
    /\ client = None
    /\ token = None
    /\ issued = None
    /\ clientLock = {}
    /\ authLock = {}
    /\ rejected = {}
    /\ logins = 0
    /\ pc = [t \in Threads |-> "idle"]
    /\ after = [t \in Threads |-> ""]
    /\ cached_posts = [t \in Threads |-> <<>>]
    /\ query = [t \in Threads |-> NoQuery]
    /\ call = [t \in Threads |-> NoCall]
    /\ result = [t \in Threads |-> NoResult]
    /\ quota \in Workloads(scenario)
    /\ calls = [t \in Threads |-> 0]
    /\ last = [t \in Threads |-> NoLast]
    /\ fetched = [t \in Threads |-> 0]
    /\ decoded = [t \in Threads |-> None]
    /\ served = [t \in Threads |-> <<>>]
    /\ yielded = [t \in Threads |-> <<>>]

\* -------------------------------------------------- AuthenticatedClient::new

\* Faulty variant of New: a client is handed out whatever the login gave.
NewAlwaysOk(resp, built) ==
    /\ phase = "new"
    /\ LET a == Authenticate(variant, token, resp, built)
       IN  /\ token' = a.login.token
           /\ issued' = Issued(issued, resp)
           /\ logins' = IF scenario = "expired" THEN logins + 1 ELSE logins
           /\ client' = a.client
           /\ phase' = "ready"
           /\ rejected' = IF scenario = "expired" /\ a.ok THEN {a.client[1]} ELSE {}
           /\ boot' = IF a.ok THEN None ELSE Some(Noted(a, resp, token))
    /\ UNCHANGED <<scenario, variant, quota, clientLock, authLock, pc, call, result>>
    /\ UNCHANGED feeds

\* new(): login, token(), make_client; a client exists only if all succeed.
\* In scenario "expired" the token it starts with is the one the server
\* rejects from then on.
New(resp, built) ==
    /\ phase = "new"
    /\ LET a == Authenticate(variant, token, resp, built)
       IN  /\ token' = a.login.token
           /\ issued' = Issued(issued, resp)
           /\ logins' = IF scenario = "expired" THEN logins + 1 ELSE logins
           /\ client' = a.client
           /\ IF a.ok
              THEN /\ phase' = "ready"
                   /\ rejected' = IF scenario = "expired" THEN {a.client[1]} ELSE {}
              ELSE /\ phase' = "failed"
                   /\ rejected' = rejected
           /\ boot' = IF a.ok THEN None ELSE Some(Noted(a, resp, token))
    /\ UNCHANGED <<scenario, variant, quota, clientLock, authLock, pc, call, result>>
    /\ UNCHANGED feeds

\* -------------------------------------------------- AuthenticatedClient::get

Ok(body) == [ok |-> TRUE, body |-> body, err |-> NoErr]

Err(e) == [ok |-> FALSE, body |-> NoBody, err |-> e]

\* Faulty variant of Return: the authenticator guard outlives the call.
ReturnKeepsAuth(t, res, c) ==
    /\ result' = [result EXCEPT ![t] = res]
    /\ clientLock' = clientLock \ {t}
    /\ authLock' = authLock
    /\ call' = [call EXCEPT ![t] =
                    [c EXCEPT !.post = Some([client |-> client', token |-> token',
                                             held |-> t \in clientLock' \cup authLock'])]]
    /\ pc' = [pc EXCEPT ![t] = "got"]

\* Faulty variant of Return: the transport guard outlives the call.
ReturnKeepsClient(t, res, c) ==
    /\ result' = [result EXCEPT ![t] = res]
    /\ clientLock' = clientLock
    /\ authLock' = authLock \ {t}
    /\ call' = [call EXCEPT ![t] =
                    [c EXCEPT !.post = Some([client |-> client', token |-> token',
                                             held |-> t \in clientLock' \cup authLock'])]]
    /\ pc' = [pc EXCEPT ![t] = "got"]

\* get() returns res: both guards go out of scope, so whatever lock the
\* thread holds is released.  c is the call's record; the shared state as
\* it is at the return is noted in c.post.
Return(t, res, c) ==
    /\ result' = [result EXCEPT ![t] = res]
    /\ clientLock' = clientLock \ {t}
    /\ authLock' = authLock \ {t}
    /\ call' = [call EXCEPT ![t] =
                    [c EXCEPT !.post = Some([client |-> client', token |-> token',
                                             held |-> t \in clientLock' \cup authLock'])]]
    /\ pc' = [pc EXCEPT ![t] = "got"]

\* Faulty variant of GetLock: the transport is used without waiting for its mutex.
GetLockNoWait(t) ==
    /\ pc[t] = "lock"
    /\ clientLock' = clientLock \cup {t}
    /\ call' = [call EXCEPT ![t] =
                    [NoCall EXCEPT !.pre = [client |-> client, token |-> token]]]
    /\ pc' = [pc EXCEPT ![t] = "req1"]
    /\ UNCHANGED <<client, token, issued, authLock, logins, result>>
    /\ UNCHANGED <<setup, feeds>>

\* self.client.lock(): blocks until the transport mutex is free.
GetLock(t) ==
    /\ pc[t] = "lock"
    /\ clientLock = {}
    /\ clientLock' = {t}
    /\ call' = [call EXCEPT ![t] =
                    [NoCall EXCEPT !.pre = [client |-> client, token |-> token]]]
    /\ pc' = [pc EXCEPT ![t] = "req1"]
    /\ UNCHANGED <<client, token, issued, authLock, logins, result>>
    /\ UNCHANGED <<setup, feeds>>

\* Faulty variant of Challenge: the transport guard is dropped before the re-login.
ChallengeUnlocked(t, c) ==
    /\ call' = [call EXCEPT ![t] = c]
    /\ pc' = [pc EXCEPT ![t] = "authlock"]
    /\ clientLock' = clientLock \ {t}
    /\ UNCHANGED <<authLock, result>>

\* check_auth said false: go on to re-authenticate, the transport guard
\* still in scope.
Challenge(t, c) ==
    /\ call' = [call EXCEPT ![t] = c]
    /\ pc' = [pc EXCEPT ![t] = "authlock"]
    /\ UNCHANGED <<clientLock, authLock, result>>

\* Faulty variant of FirstRequest: a GET that got no response is taken for a
\* challenge.
FirstRequestRetries(t, r) ==
    /\ pc[t] = "req1"
    /\ ServerGives(client[1], r)
    /\ UNCHANGED <<client, token, issued, logins>>
    /\ LET c == [call[t] EXCEPT
                    !.gets = Append(@, [cred |-> client[1], status |-> r.status])]
       IN  IF r.status # 0 /\ check_auth(r.status) = "ok"
           THEN Return(t, Ok(r.body), c)
           ELSE IF r.status = 0 \/ check_auth(r.status) = "challenge"
           THEN Challenge(t, c)
           ELSE Return(t, Err(AuthenticationError("Reddit returned an unexpected code", "")), c)
    /\ UNCHANGED <<setup, feeds>>

\* make_request then check_auth: the first GET and its classification.
FirstRequest(t, r) ==
    /\ pc[t] = "req1"
    /\ ServerGives(client[1], r)
    /\ UNCHANGED <<client, token, issued, logins>>
    /\ LET c == [call[t] EXCEPT
                    !.gets = Append(@, [cred |-> client[1], status |-> r.status])]
       IN  IF r.status = 0
           THEN Return(t, Err(RequestError), c)
           ELSE IF check_auth(r.status) = "ok"
           THEN Return(t, Ok(r.body), c)
           ELSE IF check_auth(r.status) = "challenge"
           THEN Challenge(t, c)
           ELSE Return(t, Err(AuthenticationError("Reddit returned an unexpected code", "")), c)
    /\ UNCHANGED <<setup, feeds>>

\* self.authenticator.lock(): blocks until the authenticator mutex is free.
LockAuthenticator(t) ==
    /\ pc[t] = "authlock"
    /\ authLock = {}
    /\ authLock' = {t}
    /\ pc' = [pc EXCEPT ![t] = "login"]
    /\ UNCHANGED <<client, token, issued, clientLock, logins, call, result>>
    /\ UNCHANGED <<setup, feeds>>

\* Faulty variant of ReLogin: the GET is retried whatever the login gave.
ReLoginGoesOn(t, resp, built) ==
    /\ pc[t] = "login"
    /\ EndpointGives(resp, built)
    /\ LET a == Authenticate(variant, token, resp, built)
           c == [call[t] EXCEPT !.logins = @ + 1,
                                !.relogin = Some(Noted(a, resp, token))]
       IN  /\ token' = a.login.token
           /\ issued' = Issued(issued, resp)
           /\ logins' = IF scenario = "expired" THEN logins + 1 ELSE logins
           /\ client' = Install(client, a)
           /\ call' = [call EXCEPT ![t] = c]
           /\ pc' = [pc EXCEPT ![t] = "req2"]
           /\ UNCHANGED <<clientLock, authLock, result>>
    /\ UNCHANGED <<setup, feeds>>

\* authenticator.login()?, token(), *client = make_client(..)?
ReLogin(t, resp, built) ==
    /\ pc[t] = "login"
    /\ EndpointGives(resp, built)
    /\ LET a == Authenticate(variant, token, resp, built)
           c == [call[t] EXCEPT !.logins = @ + 1,
                                !.relogin = Some(Noted(a, resp, token))]
       IN  /\ token' = a.login.token
           /\ issued' = Issued(issued, resp)
           /\ logins' = IF scenario = "expired" THEN logins + 1 ELSE logins
           /\ client' = Install(client, a)
           /\ IF a.ok
              THEN /\ call' = [call EXCEPT ![t] = c]
                   /\ pc' = [pc EXCEPT ![t] = "req2"]
                   /\ UNCHANGED <<clientLock, authLock, result>>
              ELSE /\ Return(t, Err(a.err), c)
    /\ UNCHANGED <<setup, feeds>>

\* Faulty variant of Retried: only 401 counts as a failed retry.
RetriedLax(r) ==
    IF r.status = 0 THEN Err(RequestError)
    ELSE IF r.status # 401 THEN Ok(r.body)
    ELSE Err(AuthenticationError(
            "Failed to authenticate, even after requesting new token", ""))

\* What get() returns for the response r to the retried GET.
Retried(r) ==
    IF r.status = 0 THEN Err(RequestError)
    ELSE IF r.status = 200 THEN Ok(r.body)
    ELSE Err(AuthenticationError(
            "Failed to authenticate, even after requesting new token", ""))

\* Faulty variant of SecondRequest: a challenge to the retried GET starts another
\* re-login instead of failing.
SecondRequestAgain(t, r) ==
    /\ pc[t] = "req2"
    /\ ServerGives(client[1], r)
    /\ UNCHANGED <<client, token, issued, logins>>
    /\ LET c == [call[t] EXCEPT
                    !.gets = Append(@, [cred |-> client[1], status |-> r.status])]
       IN  IF check_auth(r.status) = "challenge"
           THEN /\ call' = [call EXCEPT ![t] = c]
                /\ pc' = [pc EXCEPT ![t] = "login"]
                /\ UNCHANGED <<clientLock, authLock, result>>
           ELSE Return(t, Retried(r), [c EXCEPT !.relogin[1].resp = Dropped])
    /\ UNCHANGED <<setup, feeds>>

\* The retried GET: 200 or an error, never another retry.
SecondRequest(t, r) ==
    /\ pc[t] = "req2"
    /\ ServerGives(client[1], r)
    /\ UNCHANGED <<client, token, issued, logins>>
    /\ LET c == [call[t] EXCEPT
                    !.gets = Append(@, [cred |-> client[1], status |-> r.status])]
       IN  Return(t, Retried(r), [c EXCEPT !.relogin[1].resp = Dropped])
    /\ UNCHANGED <<setup, feeds>>

\* ------------------------------------------------------------ PostFeed::next

Snapshot(t) == [after |-> after[t], cached_posts |-> cached_posts[t]]

\* next() with a post in the buffer: pop it, no request.
NextPop(t) ==
    /\ phase = "ready"
    /\ pc[t] = "idle"
    /\ calls[t] < quota[t]
    /\ cached_posts[t] # <<>>
    /\ cached_posts' = [cached_posts EXCEPT ![t] = Front(@)]
    /\ calls' = [calls EXCEPT ![t] = @ + 1]
    /\ yielded' = [yielded EXCEPT ![t] = Append(@, Last(cached_posts[t]))]
    /\ last' = [last EXCEPT ![t] =
            [fetch |-> FALSE, query |-> NoQuery, res |-> "item",
             item |-> Last(cached_posts[t]), page |-> None,
             pre |-> Snapshot(t),
             post |-> [after |-> after[t], cached_posts |-> Front(cached_posts[t])]]]
    /\ UNCHANGED <<after, query, fetched, decoded, served, pc, call, result, logins>>
    /\ UNCHANGED <<setup, shared>>

\* Faulty variant of NextFetch: the cursor is left out of the query.
NextFetchFirstPage(t) ==
    /\ phase = "ready"
    /\ pc[t] = "idle"
    /\ calls[t] < quota[t]
    /\ cached_posts[t] = <<>>
    /\ query' = [query EXCEPT ![t] = [limit |-> Limit, after |-> ""]]
    /\ calls' = [calls EXCEPT ![t] = @ + 1]
    /\ pc' = [pc EXCEPT ![t] = "lock"]
    /\ UNCHANGED <<after, cached_posts, last, fetched, decoded, served, yielded,
                   call, result, logins>>
    /\ UNCHANGED <<setup, shared>>

\* next() with an empty buffer: call client.get(url, {limit, after}).
NextFetch(t) ==
    /\ phase = "ready"
    /\ pc[t] = "idle"
    /\ calls[t] < quota[t]
    /\ cached_posts[t] = <<>>
    /\ query' = [query EXCEPT ![t] = [limit |-> Limit, after |-> after[t]]]
    /\ calls' = [calls EXCEPT ![t] = @ + 1]
    /\ pc' = [pc EXCEPT ![t] = "lock"]
    /\ UNCHANGED <<after, cached_posts, last, fetched, decoded, served, yielded,
                   call, result, logins>>
    /\ UNCHANGED <<setup, shared>>

\* The match on get()'s result: the listing, or the error next() yields.
Decode(res) ==
    IF ~res.ok THEN [ok |-> FALSE, err |-> res.err, page |-> None]
    ELSE IF res.body.kind = "unreadable"
    THEN [ok |-> FALSE, err |-> RequestError, page |-> None]
    ELSE IF ParseListing(res.body) = None
    THEN [ok |-> FALSE, err |-> APIParseError, page |-> None]
    ELSE [ok |-> TRUE, err |-> NoErr, page |-> ParseListing(res.body)]

\* Faulty variant of FeedStep: an error starts the feed over (cursor and buffer
\* cleared).
FeedStepResets(f, d) ==
    IF ~d.ok
    THEN [after |-> "", cached_posts |-> <<>>, res |-> "err", item |-> 0]
    ELSE LET buf == ExtendReversed(f.cached_posts, d.page[1].children)
         IN  IF buf = <<>>
             THEN [after |-> d.page[1].after, cached_posts |-> buf,
                   res |-> "end", item |-> 0]
             ELSE [after |-> d.page[1].after, cached_posts |-> Front(buf),
                   res |-> "item", item |-> Last(buf)]

\* Faulty variant of FeedStep: the post handed out stays in the buffer.
FeedStepKeepsPost(f, d) ==
    IF ~d.ok
    THEN [after |-> f.after, cached_posts |-> f.cached_posts,
          res |-> "err", item |-> 0]
    ELSE LET buf == ExtendReversed(f.cached_posts, d.page[1].children)
         IN  IF buf = <<>>
             THEN [after |-> d.page[1].after, cached_posts |-> buf,
                   res |-> "end", item |-> 0]
             ELSE [after |-> d.page[1].after, cached_posts |-> buf,
                   res |-> "item", item |-> Last(buf)]

\* Faulty variant of FeedStep: a page without children leaves the cursor alone.
FeedStepSkipsEmpty(f, d) ==
    IF ~d.ok
    THEN [after |-> f.after, cached_posts |-> f.cached_posts,
          res |-> "err", item |-> 0]
    ELSE LET buf == ExtendReversed(f.cached_posts, d.page[1].children)
         IN  IF buf = <<>>
             THEN [after |-> f.after, cached_posts |-> buf,
                   res |-> "end", item |-> 0]
             ELSE [after |-> d.page[1].after, cached_posts |-> Front(buf),
                   res |-> "item", item |-> Last(buf)]

\* What next() does to the feed f = [after, cached_posts] with the decoded
\* d: an error leaves it alone; a listing sets the cursor, extends the
\* buffer by the children reversed and pops one post (none if it is empty).
FeedStep(f, d) ==
    IF ~d.ok
    THEN [after |-> f.after, cached_posts |-> f.cached_posts,
          res |-> "err", item |-> 0]
    ELSE LET buf == ExtendReversed(f.cached_posts, d.page[1].children)
         IN  IF buf = <<>>
             THEN [after |-> d.page[1].after, cached_posts |-> buf,
                   res |-> "end", item |-> 0]
             ELSE [after |-> d.page[1].after, cached_posts |-> Front(buf),
                   res |-> "item", item |-> Last(buf)]

\* Faulty variant of NextFinish: cursor and buffer are one per client, not one
\* per feed.
NextFinishShared(t) ==
    /\ pc[t] = "got"
    /\ LET d == Decode(result[t])
           n == FeedStep(Snapshot(t), d)
       IN  /\ after' = [u \in Threads |-> n.after]
           /\ cached_posts' = [u \in Threads |-> n.cached_posts]
           /\ served' = [served EXCEPT ![t] =
                    IF d.ok THEN @ \o d.page[1].children ELSE @]
           /\ fetched' = [fetched EXCEPT ![t] = IF d.ok THEN @ + 1 ELSE @]
           /\ decoded' = [decoded EXCEPT ![t] =
                    IF d.ok THEN Some(d.page[1].after) ELSE @]
           /\ yielded' = [yielded EXCEPT ![t] =
                    IF n.res = "item" THEN Append(@, n.item) ELSE @]
           /\ last' = [last EXCEPT ![t] =
                    [fetch |-> TRUE, query |-> query[t], res |-> n.res,
                     item |-> n.item, page |-> d.page, pre |-> Snapshot(t),
                     post |-> [after |-> n.after, cached_posts |-> n.cached_posts]]]
    /\ pc' = [pc EXCEPT ![t] = "idle"]
    /\ call' = [call EXCEPT ![t] = NoCall]
    /\ result' = [result EXCEPT ![t] = NoResult]
    /\ UNCHANGED <<query, calls, logins>>
    /\ UNCHANGED <<setup, shared>>

\* The rest of next() once get() has returned.
NextFinish(t) ==
    /\ pc[t] = "got"
    /\ LET d == Decode(result[t])
           n == FeedStep(Snapshot(t), d)
       IN  /\ after' = [after EXCEPT ![t] = n.after]
           /\ cached_posts' = [cached_posts EXCEPT ![t] = n.cached_posts]
           /\ served' = [served EXCEPT ![t] =
                    IF d.ok THEN @ \o d.page[1].children ELSE @]
           /\ fetched' = [fetched EXCEPT ![t] = IF d.ok THEN @ + 1 ELSE @]
           /\ decoded' = [decoded EXCEPT ![t] =
                    IF d.ok THEN Some(d.page[1].after) ELSE @]
           /\ yielded' = [yielded EXCEPT ![t] =
                    IF n.res = "item" THEN Append(@, n.item) ELSE @]
           /\ last' = [last EXCEPT ![t] =
                    [fetch |-> TRUE, query |-> query[t], res |-> n.res,
                     item |-> n.item, page |-> d.page, pre |-> Snapshot(t),
                     post |-> [after |-> n.after, cached_posts |-> n.cached_posts]]]
    /\ pc' = [pc EXCEPT ![t] = "idle"]
    /\ call' = [call EXCEPT ![t] = NoCall]
    /\ result' = [result EXCEPT ![t] = NoResult]
    /\ UNCHANGED <<query, calls, logins>>
    /\ UNCHANGED <<setup, shared>>

\* ------------------------------------------------------------ specification

Next ==
    \/ \E resp \in LoginResponses, built \in BOOLEAN : New(resp, built)
    \/ \E t \in Threads : NextPop(t)
    \/ \E t \in Threads : NextFetch(t)
    \/ \E t \in Threads : GetLock(t)
    \/ \E t \in Threads, r \in GetResponses : FirstRequest(t, r)
    \/ \E t \in Threads : LockAuthenticator(t)
    \/ \E t \in Threads, resp \in LoginResponses, built \in BOOLEAN :
            ReLogin(t, resp, built)
    \/ \E t \in Threads, r \in GetResponses : SecondRequest(t, r)
    \/ \E t \in Threads : NextFinish(t)

Spec == Init /\ [][Next]_vars

\* The steps of thread t inside get().  A mutex that is free is given to a
\* thread waiting for it, and every network call returns; whether and when
\* a thread calls next() again is up to the caller.
GetStep(t) ==
    \/ GetLock(t)
    \/ \E r \in GetResponses : FirstRequest(t, r)
    \/ LockAuthenticator(t)
    \/ \E resp \in LoginResponses, built \in BOOLEAN : ReLogin(t, resp, built)
    \/ \E r \in GetResponses : SecondRequest(t, r)

\* The workloads in which every thread calls.
LiveInit == Init /\ \A t \in Threads : quota[t] > 0

LiveSpec ==
    LiveInit /\ [][Next]_vars /\ \A t \in Threads : WF_vars(GetStep(t))

\* ------------------------------------------------------------------ claims

InGet(t) == pc[t] \in {"req1", "authlock", "login", "req2"}

InFlight(t) == pc[t] # "idle"

Returned(t) == pc[t] = "got"

IsChallenge(status) == status \in {401, 403}

\* C1: the posts a feed has yielded, followed by the posts still in its
\* buffer in pop order, are exactly the children of the pages it has decoded,
\* page after page in server order (nothing lost, duplicated or reordered);
\* and a page is requested only with an empty buffer.
C1_PageOrder ==
    \A t \in Threads :
        /\ served[t] = yielded[t] \o Reverse(cached_posts[t])
        /\ InFlight(t) => cached_posts[t] = <<>>
        /\ last[t].fetch => last[t].pre.cached_posts = <<>>

\* Two pages with children, <<1, 2>> then <<1>>, all three posts yielded.
C1_Witness ==
    \E t \in Threads :
        /\ fetched[t] = 2
        /\ yielded[t] = <<1, 2, 1>>
        /\ served[t] = yielded[t]
        /\ last[t].fetch /\ last[t].page # None
        /\ last[t].page[1].children = <<1>>

\* C2: when next() yields an error, cursor and buffer are what they were
\* before the call, and the next call's request carries the same "after" as
\* the failed one.
C2_ErrorKeepsFeed ==
    \A t \in Threads :
        last[t].res = "err" =>
            /\ last[t].fetch
            /\ after[t] = last[t].pre.after
            /\ cached_posts[t] = last[t].pre.cached_posts
            /\ InFlight(t) => query[t] = last[t].query

\* A failed request for the page after "t3_1", and the next call under way.
C2_Witness ==
    \E t \in Threads :
        /\ last[t].res = "err"
        /\ last[t].query.after = "t3_1"
        /\ pc[t] = "lock"
        /\ query[t].after = "t3_1"

\* The re-login of the call in c succeeded and rebuilt the transport.
Recovered(c) == c.relogin # None /\ c.relogin[1].ok

\* C3: first GET 401/403, re-login succeeds, retried GET 200: get() returns
\* success and the transport then holds the token that re-login obtained.
C3_RetrySucceeds ==
    \A t \in Threads :
        (/\ Returned(t)
         /\ Len(call[t].gets) = 2
         /\ IsChallenge(call[t].gets[1].status)
         /\ Recovered(call[t])
         /\ call[t].gets[2].status = 200)
        => /\ result[t].ok
           /\ call[t].post[1].client = call[t].relogin[1].login.token

\* A 401, a re-login that obtained another token than the stale one, a 200.
C3_Witness ==
    \E t \in Threads :
        /\ Returned(t)
        /\ Len(call[t].gets) = 2
        /\ call[t].gets[1].status = 401
        /\ call[t].gets[2].status = 200
        /\ result[t].ok
        /\ call[t].post[1].client # call[t].pre.client

\* C4: first GET 401/403, re-login succeeds, retried GET answers a status
\* other than 200: get() fails with an authentication error and the transport
\* holds the token that re-login obtained.
C4_RetryFails ==
    \A t \in Threads :
        (/\ Returned(t)
         /\ Len(call[t].gets) = 2
         /\ IsChallenge(call[t].gets[1].status)
         /\ Recovered(call[t])
         /\ call[t].gets[2].status \notin {0, 200})
        => /\ ~result[t].ok
           /\ result[t].err.type = "AuthenticationError"
           /\ call[t].post[1].client = call[t].relogin[1].login.token

\* A 401, a re-login with a new token, a 403.
C4_Witness ==
    \E t \in Threads :
        /\ Returned(t)
        /\ Len(call[t].gets) = 2
        /\ call[t].gets[1].status = 401
        /\ call[t].gets[2].status = 403
        /\ ~result[t].ok
        /\ call[t].post[1].client # call[t].pre.client

\* C5: one get() makes at most two GETs and at most one login; a second GET
\* only after a 401/403 on the first and a successful re-login.
C5_AtMostOneRetry ==
    \A t \in Threads :
        /\ Len(call[t].gets) <= 2
        /\ call[t].logins <= 1
        /\ Len(call[t].gets) = 2 =>
                /\ IsChallenge(call[t].gets[1].status)
                /\ call[t].logins = 1
                /\ Recovered(call[t])

\* A get() that has returned after two challenged GETs and one login.
C5_Witness ==
    \E t \in Threads :
        /\ Returned(t)
        /\ Len(call[t].gets) = 2
        /\ IsChallenge(call[t].gets[2].status)
        /\ call[t].logins = 1

\* C6 (as claimed): outside a re-authentication critical section the
\* transport's credential is the token of the last successful login.
C6_TransportMatchesToken ==
    (phase = "ready" /\ \A t \in Threads : ~InGet(t)) => client = token

\* C7: a thread inside get() holds the transport lock from its first GET to
\* its return, alone; while it has not rebuilt the transport nobody else
\* has changed it; and each GET went out with the transport as it was when
\* the lock was taken or as the re-login rebuilt it.
C7_Serialized ==
    \A t \in Threads :
        /\ InGet(t) => clientLock = {t}
        /\ pc[t] \in {"login", "req2"} => authLock = {t}
        /\ pc[t] \in {"req1", "authlock", "login"} => client = call[t].pre.client
        /\ pc[t] = "req2" => client = call[t].relogin[1].client
        /\ \A i \in 1..Len(call[t].gets) :
                Some(call[t].gets[i].cred) =
                    IF i = 1 THEN call[t].pre.client ELSE call[t].relogin[1].client

\* One thread about to retry with the rebuilt transport, another waiting for
\* the lock.
C7_Witness ==
    \E t, u \in Threads :
        /\ pc[t] = "req2"
        /\ client # call[t].pre.client
        /\ pc[u] = "lock"

\* C8: against a server that rejects the current token and accepts every
\* fresh one, all the get() calls together log in once (one login besides
\* the constructor's): a call that did not log in had its only GET answered
\* 200 with the refreshed transport.
C8_OneLogin ==
    scenario = "expired" =>
        /\ logins <= 2
        /\ \A t \in Threads :
                Returned(t) =>
                    /\ logins = 2
                    /\ result[t].ok
                    /\ call[t].logins = 0 =>
                            /\ Len(call[t].gets) = 1
                            /\ call[t].gets[1].cred \notin rejected
                            /\ call[t].gets[1].status = 200

\* Both threads called get() at once; one logged in, the other is back
\* without a login.
C8_Witness ==
    /\ scenario = "expired"
    /\ \A t \in Threads : quota[t] = 1
    /\ logins = 2
    /\ \E t, u \in Threads :
            /\ Returned(t) /\ call[t].logins = 1
            /\ Returned(u) /\ call[u].logins = 0

\* C9: a first GET answered by a status other than 200, 401, 403 makes get()
\* fail with an authentication error at once: no login, no second GET,
\* transport and token as they were.
C9_UnexpectedStatus ==
    \A t \in Threads :
        (/\ Len(call[t].gets) >= 1
         /\ call[t].gets[1].status \notin {0, 200, 401, 403})
        => /\ Returned(t)
           /\ ~result[t].ok
           /\ result[t].err.type = "AuthenticationError"
           /\ call[t].logins = 0
           /\ Len(call[t].gets) = 1
           /\ call[t].post[1].client = call[t].pre.client
           /\ call[t].post[1].token = call[t].pre.token

\* A get() back from a 500.
C9_Witness ==
    \E t \in Threads :
        /\ Returned(t)
        /\ call[t].gets = <<[cred |-> client[1], status |-> 500]>>
        /\ result[t].err.msg = "Reddit returned an unexpected code"

\* C10 (as claimed): an empty cursor after a decoded page is terminal: a
\* feed that has decoded a page and yielded posts never again sends the
\* request of the first page (after = ""), which would serve them again.
C10_EmptyCursorTerminal ==
    \A t \in Threads :
        (InFlight(t) /\ fetched[t] > 0 /\ yielded[t] # <<>>) => query[t].after # ""

\* C11: every page request carries limit = 100 and after = the trailing
\* token of the page decoded last, or "" if none was decoded yet; the cursor
\* is that token at all times, so it changes only when a page is decoded.
C11_QueryFollowsCursor ==
    \A t \in Threads :
        LET tok == IF decoded[t] = None THEN "" ELSE decoded[t][1]
        IN  /\ after[t] = tok
            /\ fetched[t] = 0 <=> decoded[t] = None
            /\ InFlight(t) => query[t] = [limit |-> 100, after |-> tok]
            /\ last[t].fetch => last[t].query.limit = 100

\* Two posts of a page with token "t3_1" consumed, and the third next() has
\* sent after = "t3_1".
C11_Witness ==
    \E t \in Threads :
        /\ yielded[t] = <<1, 2>>
        /\ fetched[t] = 1
        /\ calls[t] = 3
        /\ pc[t] = "lock"
        /\ query[t] = [limit |-> 100, after |-> "t3_1"]

\* The logins of which the token-exchange response is still noted: that of a
\* failed new(), and that of each get() up to its retried GET.
Exchanges ==
    {boot[i] : i \in DOMAIN boot}
        \cup {call[t].relogin[1] : t \in {u \in Threads :
                    /\ call[u].relogin # None
                    /\ call[u].relogin[1].resp.kind # "dropped"}}

ClientIdError == AuthenticationError("Client ID or Secret are wrong", "")

C13_ErrorPayloadFails ==
    /\ \A e \in Exchanges :
            e.resp.kind = "error"
            => /\ ~e.login.ok
               /\ e.login.err.type = "AuthenticationError"
               /\ e.login.err.text = e.resp.error
               /\ e.resp.error # ""
               /\ e.login.token = e.stored
    /\ \A t \in Threads :
            (/\ Returned(t) /\ call[t].relogin # None
             /\ call[t].relogin[1].resp.kind = "error")
            => /\ call[t].post[1].token = call[t].pre.token
               /\ result[t].err.text = call[t].relogin[1].resp.error
    /\ (boot # None /\ boot[1].resp.kind = "error") => token = None

\* A get() back from a re-login answered 200 with an error payload, the
\* stored token still the one from before.
C13_Witness ==
    \E t \in Threads :
        /\ Returned(t)
        /\ call[t].relogin # None
        /\ call[t].relogin[1].resp.status = 200
        /\ call[t].relogin[1].resp.kind = "error"
        /\ result[t].err.text = "invalid_grant"
        /\ token = call[t].pre.token /\ token # None

\* C14: new() hands out a client only if its login succeeded and a token is
\* held; if the login (or the transport built from its token) fails there is
\* no client and nothing is ever requested; a client just handed out has the
\* token as its transport credential.
C14_NewNeedsLogin ==
    /\ phase = "new" => client = None /\ token = None /\ boot = None
    /\ phase = "ready" => /\ boot = None
                          /\ token # None
                          /\ client # None
    /\ (phase = "ready" /\ \A t \in Threads : calls[t] = 0) => client = token
    /\ phase = "failed" => /\ client = None
                           /\ boot # None /\ ~boot[1].ok
                           /\ ~boot[1].login.ok => boot[1].err = boot[1].login.err
                           /\ \A t \in Threads : calls[t] = 0 /\ pc[t] = "idle"
    /\ (\E t \in Threads : calls[t] > 0) => phase = "ready"

\* A new() whose token exchange was answered with an error payload: no
\* client.
C14_Witness ==
    /\ phase = "failed"
    /\ boot # None
    /\ boot[1].resp.kind = "error"
    /\ client = None

\* A new() that succeeded, before the first request.
C14_WitnessReady ==
    /\ phase = "ready"
    /\ \A t \in Threads : calls[t] = 0
    /\ client = token /\ client # None

\* C15: a first GET that fails in transport makes get() return that
\* transport error: no login, no second GET, transport and token as they
\* were; and a get() that goes on past its first GET had a response to it.
C15_TransportErrorReturns ==
    \A t \in Threads :
        /\ (InGet(t) /\ pc[t] # "req1") => call[t].gets[1].status # 0
        /\ (Returned(t) /\ call[t].gets[1].status = 0)
           => /\ result[t] = Err(RequestError)
              /\ Len(call[t].gets) = 1
              /\ call[t].logins = 0 /\ call[t].relogin = None
              /\ call[t].post[1].client = call[t].pre.client
              /\ call[t].post[1].token = call[t].pre.token
              /\ Decode(result[t]).err = RequestError

\* A get() back from a first GET without response, while the other thread
\* is about to use the same, untouched transport.
C15_Witness ==
    \E t \in Threads :
        /\ Returned(t)
        /\ call[t].gets = <<[cred |-> client[1], status |-> 0]>>
        /\ result[t].err = RequestError
        /\ \E u \in Threads \ {t} : pc[u] = "req1"

\* C16: the call that decodes a page c1..cn (n >= 1) yields c1 and leaves
\* cn..c2 in the buffer; a call that finds the buffer non-empty yields its
\* last element and removes it, sending no request and leaving the cursor
\* alone; so the n-1 calls after the page yield c2..cn from the buffer.
C16_PageThenPops ==
    \A t \in Threads :
        LET l == last[t]
        IN  /\ (l.fetch /\ l.page # None /\ l.page[1].children # <<>>)
               => LET ch == l.page[1].children
                      n == Len(ch)
                  IN  /\ l.res = "item" /\ l.item = ch[1]
                      /\ l.post.cached_posts = [i \in 1..(n - 1) |-> ch[n + 1 - i]]
            /\ (~l.fetch /\ l.res # "none")
               => /\ l.res = "item"
                  /\ l.pre.cached_posts # <<>>
                  /\ l.item = Last(l.pre.cached_posts)
                  /\ l.post.cached_posts = Front(l.pre.cached_posts)
                  /\ l.post.after = l.pre.after
                  /\ l.query = NoQuery /\ l.page = None
            /\ cached_posts[t] # <<>>
               => /\ pc[t] = "idle"
                  /\ cached_posts[t] = l.post.cached_posts
                  /\ \E k \in 1..Len(served[t]) :
                        Reverse(cached_posts[t]) = SubSeq(served[t], k, Len(served[t]))

\* The page <<1, 2>> decoded by the first call, 2 popped by the second, and
\* one page decoded in all.
C16_Witness ==
    \E t \in Threads :
        /\ calls[t] = 2 /\ pc[t] = "idle" /\ fetched[t] = 1
        /\ yielded[t] = <<1, 2>>
        /\ ~last[t].fetch /\ last[t].item = 2
        /\ last[t].pre.cached_posts = <<2>>
        /\ cached_posts[t] = <<>>

\* A step that changes the cursor or the buffer of feed t is a step of t's
\* own next(): its pop, or its handling of what its get() returned.
OwnStep(t) ==
    \/ pc[t] = "idle" /\ pc'[t] = "idle" /\ calls'[t] = calls[t] + 1
    \/ pc[t] = "got" /\ pc'[t] = "idle"

\* C17: with several feeds consumed by several threads over one client,
\* every feed's cursor and buffer are what its own most recent next() left,
\* the posts it yielded and still buffers are the children of the pages it
\* decoded itself, in order and once each, and no step of another feed's
\* next() or of any get(), re-authentication included, changes them.
C17_FeedsIndependent ==
    /\ [](\A t \in Threads :
            /\ Snapshot(t) = last[t].post
            /\ served[t] = yielded[t] \o Reverse(cached_posts[t])
            /\ Len(yielded[t]) <= calls[t])
    /\ [][\A t \in Threads :
            (after'[t] # after[t] \/ cached_posts'[t] # cached_posts[t])
            => /\ OwnStep(t)
               /\ \A u \in Threads \ {t} :
                    after'[u] = after[u] /\ cached_posts'[u] = cached_posts[u]]_vars

\* Feed 1 has yielded the first post of its page, buffers the second and
\* points past the page, while thread 2, re-authenticating under both locks,
\* has feed 2 still at the start.
C17_Witness ==
    /\ yielded[1] = <<1>> /\ cached_posts[1] = <<2>> /\ after[1] = "t3_1"
    /\ pc[1] = "idle"
    /\ pc[2] = "req2" /\ authLock = {2} /\ clientLock = {2}
    /\ after[2] = "" /\ cached_posts[2] = <<>> /\ yielded[2] = <<>>

\* Feed 1 pops its second post while thread 2 is inside get().
C17_WitnessPop ==
    /\ yielded[1] = <<1, 2>> /\ calls[1] = 2 /\ ~last[1].fetch
    /\ pc[2] = "req1" /\ clientLock = {2}
    /\ after[2] = "" /\ cached_posts[2] = <<>>

\* C18: a call that decodes a page without children sets the cursor to the
\* page's trailing token, yields end-of-iteration (no item, no error) and
\* leaves the buffer empty, so that the next call requests a page with the
\* new cursor; and end-of-iteration is yielded by such a call only.
C18_EmptyPageEnds ==
    \A t \in Threads :
        LET l == last[t]
        IN  /\ (l.fetch /\ l.page # None /\ l.page[1].children = <<>>)
               => /\ l.res = "end" /\ l.item = 0
                  /\ l.post = [after |-> l.page[1].after, cached_posts |-> <<>>]
                  /\ after[t] = l.page[1].after
                  /\ cached_posts[t] = <<>>
                  /\ InFlight(t) => query[t] = [limit |-> Limit,
                                                after |-> l.page[1].after]
            /\ l.res = "end"
               => /\ l.fetch
                  /\ l.page # None
                  /\ l.page[1].children = <<>>
                  /\ l.pre.cached_posts = <<>>

\* A first page without children and with trailing token "t3_1" has ended
\* the iteration; the next call asks for the page after "t3_1".
C18_Witness ==
    \E t \in Threads :
        /\ last[t].res = "end"
        /\ last[t].query.after = ""
        /\ last[t].page[1].after = "t3_1"
        /\ yielded[t] = <<>>
        /\ calls[t] = 2 /\ pc[t] = "lock"
        /\ query[t].after = "t3_1"

\* C19: the stored token is absent until a login succeeds; a login replaces
\* it exactly if the response body is a token, by that token, and a failing
\* login leaves it as it was; so it is always the token of the latest
\* successful exchange.
C19_TokenOfLastExchange ==
    /\ token = issued
    /\ phase = "new" => token = None
    /\ \A e \in Exchanges :
            /\ e.login.ok <=> e.resp.kind = "token"
            /\ e.login.token = IF e.resp.kind = "token"
                               THEN Some(e.resp.access_token)
                               ELSE e.stored
    /\ boot # None => boot[1].stored = None /\ token = boot[1].login.token
    /\ \A t \in Threads :
            /\ (InGet(t) /\ call[t].relogin = None) => token = call[t].pre.token
            /\ pc[t] = "req2" => token = call[t].relogin[1].login.token
            /\ Returned(t)
               => call[t].post[1].token =
                    IF call[t].relogin = None THEN call[t].pre.token
                    ELSE call[t].relogin[1].login.token
            /\ (Returned(t) /\ call[t].relogin # None /\ ~call[t].relogin[1].login.ok)
               => call[t].post[1].token = call[t].pre.token

\* A re-login answered without a token has failed and the stored token is
\* still the one from before, while an earlier new() had stored it.
C19_Witness ==
    \E t \in Threads :
        /\ Returned(t)
        /\ call[t].relogin # None
        /\ call[t].relogin[1].resp.kind = "other"
        /\ ~call[t].relogin[1].login.ok
        /\ token = Some(2) /\ call[t].pre.token = Some(2)
        /\ clientLock = {} /\ authLock = {}

\* C20: a thread that has returned from get(), by whichever path, holds
\* neither the transport lock nor the authenticator lock; the locks are held
\* only inside get(), the authenticator lock only during re-authentication;
\* so with no thread inside get() both are free for the next caller.
C20_ReturnReleases ==
    /\ \A t \in Threads :
            /\ Returned(t) => /\ ~call[t].post[1].held
                              /\ t \notin clientLock \cup authLock
            /\ t \in clientLock <=> InGet(t)
            /\ t \in authLock <=> pc[t] \in {"login", "req2"}
    /\ (\A t \in Threads : ~InGet(t)) => clientLock = {} /\ authLock = {}
    /\ \A t \in Threads :
            (pc[t] = "lock" /\ \A u \in Threads : ~InGet(u)) => ENABLED GetLock(t)

\* A get() has returned the error of its failed re-login, and the other
\* thread has since taken the transport lock for its own get().
C20_Witness ==
    \E t \in Threads, u \in Threads :
        /\ Returned(t)
        /\ call[t].relogin # None /\ ~call[t].relogin[1].login.ok
        /\ ~result[t].ok
        /\ u # t /\ pc[u] = "req1" /\ clientLock = {u} /\ authLock = {}

\* C21: when the first GET is answered 401/403 and the login that follows
\* fails, get() returns that login's error at once: the one GET stays the
\* only one, and transport credential and stored token are those from
\* before the call.
C21_FailedReLoginReturns ==
    \A t \in Threads :
        (call[t].relogin # None /\ ~call[t].relogin[1].login.ok)
        => LET e == call[t].relogin[1]
           IN  /\ Returned(t)
               /\ Len(call[t].gets) = 1
               /\ IsChallenge(call[t].gets[1].status)
               /\ call[t].logins = 1
               /\ result[t] = Err(e.login.err)
               /\ e.login.err # NoErr
               /\ call[t].post[1].client = call[t].pre.client
               /\ call[t].post[1].token = call[t].pre.token
               /\ call[t].gets[1].cred = call[t].pre.client[1]

\* A first GET answered 403, the token exchange without response: get() is
\* back with the request error, transport and token as before.
C21_Witness ==
    \E t \in Threads :
        /\ Returned(t)
        /\ call[t].gets = <<[cred |-> client[1], status |-> 403]>>
        /\ call[t].relogin # None
        /\ call[t].relogin[1].resp.status = 0
        /\ result[t] = Err(RequestError)
        /\ client = call[t].pre.client /\ token = call[t].pre.token

\* The authenticator lock is taken and held only under the transport lock,
\* by the one thread that holds that; nobody holding a lock waits for the
\* transport lock, and the authenticator lock is free whenever a thread
\* comes to take it.
LockOrder ==
    /\ authLock \subseteq clientLock
    /\ Cardinality(clientLock) <= 1
    /\ \A t \in Threads :
            /\ pc[t] \in {"authlock", "login"} => t \in clientLock
            /\ pc[t] = "authlock" => authLock = {} /\ ENABLED LockAuthenticator(t)
            /\ pc[t] = "lock" => t \notin clientLock \cup authLock
            /\ (pc[t] = "lock" /\ clientLock # {})
               => \E u \in Threads \ {t} : InGet(u) /\ ENABLED GetStep(u)

\* C22: threads calling get() on one client never deadlock: the locks are
\* taken in the order transport, then authenticator, some thread inside
\* get() can always go on, and, a free mutex being given to a waiting thread
\* and every network call returning, every get() that was called returns.
C22_NoDeadlock ==
    /\ []LockOrder
    /\ \A t \in Threads : (pc[t] = "lock") ~> Returned(t)

\* Thread 1 waits for the transport lock while thread 2 re-authenticates
\* under both locks.
C22_Witness ==
    /\ pc[1] = "lock"
    /\ pc[2] = "login"
    /\ clientLock = {2} /\ authLock = {2}

====
